---- MODULE Spec2Model ----
(***************************************************************************)
(* cmon: monitor (and log) a network connection.                           *)
(*                                                                         *)
(* A model of src/src/cmon.py: run() opens the CSV sink, monitor() checks  *)
(* the effective uid and then loops: one ICMP probe (sr1), its             *)
(* classification (diagnostic), the UP/DOWN bookkeeping and the sleep to   *)
(* the end of the interval.  run() catches KeyboardInterrupt,              *)
(* PermissionError and ImportError, closes the sink and returns.           *)
(*                                                                         *)
(* Time is a counter of clock ticks (one tick = one second).  The two      *)
(* adjacent time.time() reads of an iteration (lines 170 and 172) see the  *)
(* same tick; sr1 takes a whole number of ticks and time.sleep(s) sleeps   *)
(* exactly s.  An optional value (Python None or a value) is a sequence of *)
(* length 0 or 1.  At most one exception leaves monitor in a session.      *)
(***************************************************************************)
EXTENDS Integers, Sequences, FiniteSets, TLC

VARIABLES
    pc,            \* position of the control in run()/monitor()
    argv,          \* the parsed arguments: interval, errors, times, csv
    env,           \* the environment: euid, scapy importable, state of the csv path
    now,           \* the clock, time.time()
    started,       \* run: started
    currentstate,  \* monitor: currentstate (None, UP, DOWN)
    uptime,        \* monitor: uptime (optional timestamp)
    downtime,      \* monitor: downtime (optional timestamp)
    pingcount,     \* monitor: pingcount
    errcount,      \* monitor: errcount
    endat,         \* monitor: endat of the current iteration
    starttime,     \* monitor: starttime of the current iteration
    runstart,      \* history: the starttime of the first probe of the unbroken
                   \* run of failed probes that ends at the last probe, if any
    rsp,           \* monitor: rsp of the current iteration (optional reply)
    exc,           \* monitor: exc of the current iteration (or "none")
    newstate,      \* monitor: newstate of the current iteration
    fd,            \* CSVLog._fd: "none" (None), "open" or "closed"
    csvfile,       \* the lines of the csv file on disk
    log,           \* the records handed to the logger, in order
    raised,        \* the exception raised in run (or "none")
    raisedat,      \* the position at which that exception was raised
    result         \* what run() gave its caller: <<>> (still running),
                   \* <<rc>> (returned rc) or <<"raise", e>> (propagated e)

vars == <<pc, argv, env, now, started, currentstate, uptime, downtime,
          pingcount, errcount, endat, starttime, runstart, rsp, exc, newstate,
          fd, csvfile, log, raised, raisedat, result>>

----------------------------------------------------------------------------
\* Bounds of the model.

MaxProbes   == 4   \* probes explored in one session
MaxInterval == 1   \* largest --interval, in ticks
MaxErrors   == 2   \* largest --errors
MaxTimes    == 2   \* largest --times

----------------------------------------------------------------------------
\* Values.

None == <<>>
Some(v) == <<v>>
Val(o) == o[1]

UP      == "UP"
DOWN    == "DOWN"
UNKNOWN == "None"

\* CSVLog.HEADERS (line 72): the header line, as the names of the columns a
\* record of the model keeps (CsvRow).
HEADERS == [state |-> "state", status |-> "status", rtt |-> "rtt"]

SEEK_CUR == 1

\* The exception classes that are OSError or a subclass of it.
OSErrorClasses == {"OSError", "PermissionError", "FileNotFoundError"}

\* Mutant of Sr1Catches: the call of sr1 is not guarded at all.
Sr1Catches_nothing(e) == FALSE

\* except OSError as ex (line 175).
Sr1Catches(e) == e \in OSErrorClasses

\* except EnvironmentError: raise (lines 89-90); EnvironmentError is OSError.
OpenReraises(e) == e \in OSErrorClasses

\* Mutant of RunCatches: KeyboardInterrupt is left out of the except clause.
RunCatches_noInterrupt(e) == e \in {"PermissionError", "ImportError"}

\* except (KeyboardInterrupt, PermissionError, ImportError) (line 211).
RunCatches(e) == e \in {"KeyboardInterrupt", "PermissionError", "ImportError"}

\* The truth value of --times (line 167): None and 0 are false, the string
\* of a number is true.
Truthy(times) ==
    IF times.type = "NoneType" THEN FALSE
    ELSE IF times.type = "int" THEN times.val # 0
    ELSE TRUE

\* while not times or pingcount < times (line 167): "True", "False", or
\* "TypeError" when an int is compared with a str.
LoopCond(times, count) ==
    IF ~Truthy(times) THEN "True"
    ELSE IF times.type = "int"
    THEN IF count < times.val THEN "True" ELSE "False"
    ELSE "TypeError"

\* in_milliseconds (lines 122-123): int(value * 1000000) / 1000.
in_milliseconds(value) == (value * 1000000) \div 1000

\* Mutant of getstate: the two letters are swapped.
getstate_swapped(c) == IF c = UP THEN "D" ELSE IF c = DOWN THEN "U" ELSE "D"

\* getstate (lines 125-126).
getstate(c) == IF c = UP THEN "U" ELSE IF c = DOWN THEN "D" ELSE "U"

\* Mutant of diagnostic: the source of the reply is not compared with the
\* destination of the probe.
diagnostic_anyReply(dst, rcvd, e) ==
    IF rcvd = None
    THEN [state |-> DOWN, result |-> "timeout", rtt |-> None]
    ELSE IF e # "none"
    THEN [state |-> DOWN, result |-> "error", rtt |-> None]
    ELSE [state |-> UP, result |-> "success",
          rtt |-> Some(in_milliseconds(Val(rcvd).rtt))]

\* diagnostic (lines 128-140): the classification of one probe.  rcvd is an
\* optional reply [src, rtt]; e is the caught exception or "none"; dst is the
\* probed destination.
diagnostic(dst, rcvd, e) ==
    IF rcvd = None
    THEN [state |-> DOWN, result |-> "timeout", rtt |-> None]
    ELSE IF e # "none"
    THEN [state |-> DOWN, result |-> "error", rtt |-> None]
    ELSE IF Val(rcvd).src # dst
    THEN [state |-> DOWN, result |-> "not reachable", rtt |-> None]
    ELSE [state |-> UP, result |-> "success",
          rtt |-> Some(in_milliseconds(Val(rcvd).rtt))]

\* The truth value of rtt: None and 0 are false (lines 110, 142).
RttTruthy(rtt) == IF rtt = None THEN FALSE ELSE Val(rtt) # 0

\* CSVLog.add (lines 108-111): the record appended for one probe.
CsvRow(d) == [state |-> getstate(d.state), status |-> d.result,
              rtt |-> IF RttTruthy(d.rtt) THEN Val(d.rtt) ELSE 0]

\* logger.debug of diagnostic (line 142).
DebugLine(d) == [lvl |-> "debug", msg |-> d.result,
                 dur |-> IF RttTruthy(d.rtt) THEN d.rtt ELSE None]

\* Mutant of lost: the uptime is counted from downtime to uptime.
lost_backwards(up_time, down_time) ==
    [lvl |-> "warning", msg |-> "DOWN",
     dur |-> IF up_time # None /\ down_time # None
             THEN Some(Val(up_time) - Val(down_time)) ELSE None]

\* lost (lines 145-151): the DOWN line, with the uptime when both are known.
lost(up_time, down_time) ==
    [lvl |-> "warning", msg |-> "DOWN",
     dur |-> IF up_time # None /\ down_time # None
             THEN Some(Val(down_time) - Val(up_time)) ELSE None]

\* Mutant of recovered: downtime is not cleared.
recovered_staleDowntime(current, down_time) ==
    [uptime |-> Some(current), errcount |-> 0, downtime |-> down_time,
     line |-> [lvl |-> "warning", msg |-> "UP",
               dur |-> IF down_time # None
                       THEN Some(current - Val(down_time)) ELSE None]]

\* Mutant of recovered: errcount is not brought back to 0.
recovered_keepsOne(current, down_time) ==
    [uptime |-> Some(current), errcount |-> 1, downtime |-> None,
     line |-> [lvl |-> "warning", msg |-> "UP",
               dur |-> IF down_time # None
                       THEN Some(current - Val(down_time)) ELSE None]]

\* recovered (lines 153-162): uptime, errcount and downtime after it, and the
\* UP line, with the downtime when known.
recovered(current, down_time) ==
    [uptime |-> Some(current), errcount |-> 0, downtime |-> None,
     line |-> [lvl |-> "warning", msg |-> "UP",
               dur |-> IF down_time # None
                       THEN Some(current - Val(down_time)) ELSE None]]

\* Mutant of ThresholdReached: the comparison is strict.
ThresholdReached_strict(count, errors) == count > errors

\* if errcount >= errors (line 183).
ThresholdReached(count, errors) == count >= errors

\* Mutant of SleepTime: the time the probe took is taken off the sleep twice.
SleepTime_short(start, end) == IF start < end THEN end - start - 1 ELSE 0

\* if starttime < endat: time.sleep(endat - starttime) (lines 192-193).
SleepTime(start, end) == IF start < end THEN end - start ELSE 0

\* file.seek(offset, whence) of a file whose position is cur and size is end.
Seek(offset, whence, cur, end) ==
    IF whence = 0 THEN offset
    ELSE IF whence = 1 THEN cur + offset
    ELSE end + offset

\* if self._fd.seek(os.SEEK_CUR, 0) == 0 (line 87): the file was opened for
\* appending, its position is its size.
AtBeginning(size) == Seek(SEEK_CUR, 0, size, size) = 0

----------------------------------------------------------------------------
\* The inputs.

Intervals == 1..MaxInterval
Errors    == 1..MaxErrors
\* --times: not given (None), or given: parse_args (lines 38-39) leaves what
\* the command line gave a str; a caller of run or monitor passes an int.
Times     == {[type |-> "NoneType", val |-> 0]}
             \cup [type : {"int", "str"}, val : 0..MaxTimes]

\* The csv path: not given, or a path whose open() succeeds on an empty or a
\* non-empty file, or fails with an OSError.
CsvPaths == {"none", "empty", "nonempty", "PermissionError", "FileNotFoundError"}

\* What sr1(icmp, timeout=interval) can do: a reply from the target or from
\* another host after d ticks, no reply within the timeout, or an exception.
Outcomes(interval) ==
    [kind : {"reply"}, src : {"target", "router"}, d : 0..interval, e : {"none"}]
    \cup [kind : {"timeout"}, src : {"none"}, d : {interval}, e : {"none"}]
    \cup [kind : {"raise"}, src : {"none"}, d : {0},
          e : {"OSError", "PermissionError"}]

\* The positions inside the try block of run, and inside the loop of monitor.
TryRegion == {"open", "import", "euid", "loop", "wait", "sleep"}
LoopRegion == {"loop", "wait", "sleep"}

Init ==
    /\ pc = "start"
    /\ argv \in [interval : Intervals, errors : Errors, times : Times, csv : CsvPaths]
    /\ env \in [root : BOOLEAN, scapy : BOOLEAN]
    /\ now = 0
    /\ started = 0
    /\ currentstate = UNKNOWN
    /\ uptime = None
    /\ downtime = None
    /\ pingcount = 0
    /\ errcount = 0
    /\ endat = 0
    /\ starttime = 0
    /\ runstart = None
    /\ rsp = None
    /\ exc = "none"
    /\ newstate = UNKNOWN
    /\ fd = "none"
    /\ csvfile = IF argv.csv = "nonempty" THEN <<HEADERS>> ELSE <<>>
    /\ log = <<>>
    /\ raised = "none"
    /\ raisedat = "none"
    /\ result = None

----------------------------------------------------------------------------
\* run (lines 197-215) and monitor (lines 114-194).

\* An exception e raised at the current position: inside the try block it
\* reaches the except clause of run (line 211), outside it leaves run.
Raise(e) ==
    /\ raised' = e
    /\ raisedat' = pc
    /\ pc' = IF pc \in TryRegion THEN "except" ELSE "raised"
    /\ result' = IF pc \in TryRegion THEN result ELSE <<"raise", e>>

\* run, lines 198-207: the Start line and the start of the clock.
Start ==
    /\ pc = "start"
    /\ log' = Append(log, [lvl |-> "info", msg |-> "Start", dur |-> None])
    /\ started' = now
    /\ pc' = "open"
    /\ UNCHANGED <<argv, env, now, currentstate, uptime, downtime, pingcount,
                   errcount, endat, starttime, runstart,
                   rsp, exc, newstate, fd, csvfile, raised,
                   raisedat, result>>

\* CSVLog.open (lines 82-94), called at line 209.
CsvOpen ==
    /\ pc = "open"
    /\ IF argv.csv = "none"
       THEN /\ pc' = "import"
            /\ UNCHANGED <<fd, csvfile, raised, raisedat, result>>
       ELSE IF argv.csv \in {"empty", "nonempty"}
       THEN /\ fd' = "open"
            /\ csvfile' = IF AtBeginning(Len(csvfile))
                          THEN Append(csvfile, HEADERS) ELSE csvfile
            /\ pc' = "import"
            /\ UNCHANGED <<raised, raisedat, result>>
       ELSE /\ OpenReraises(argv.csv)
            /\ Raise(argv.csv)
            /\ UNCHANGED <<fd, csvfile>>
    /\ UNCHANGED <<argv, env, now, started, currentstate, uptime, downtime,
                   pingcount, errcount, endat, starttime, runstart,
                   rsp, exc, newstate, log>>

\* monitor, lines 115-116: the imports of scapy.
Import ==
    /\ pc = "import"
    /\ IF env.scapy
       THEN pc' = "euid" /\ UNCHANGED <<raised, raisedat, result>>
       ELSE Raise("ImportError")
    /\ UNCHANGED <<argv, env, now, started, currentstate, uptime, downtime,
                   pingcount, errcount, endat, starttime, runstart,
                   rsp, exc, newstate, fd,
                   csvfile, log>>

\* monitor, lines 164-165: the privilege check.
CheckEuid ==
    /\ pc = "euid"
    /\ IF env.root
       THEN pc' = "loop" /\ UNCHANGED <<raised, raisedat, result>>
       ELSE Raise("PermissionError")
    /\ UNCHANGED <<argv, env, now, started, currentstate, uptime, downtime,
                   pingcount, errcount, endat, starttime, runstart,
                   rsp, exc, newstate, fd,
                   csvfile, log>>

\* monitor, lines 167-174: the loop condition holds; the packet is built, the
\* probe is counted, the clock is read and sr1 sends the probe.
Send ==
    /\ pc = "loop"
    /\ LoopCond(argv.times, pingcount) = "True"
    /\ pingcount < MaxProbes
    /\ pingcount' = pingcount + 1
    /\ endat' = now + argv.interval
    /\ rsp' = None
    /\ exc' = "none"
    /\ starttime' = now
    /\ pc' = "wait"
    /\ UNCHANGED <<argv, env, now, started, currentstate, uptime, downtime,
                   errcount, runstart, newstate, fd, csvfile, log, raised,
                   raisedat, result>>

\* monitor, lines 167 and 194: the loop condition fails, monitor returns; its
\* value is dropped by run (line 210).
LoopExit ==
    /\ pc = "loop"
    /\ LoopCond(argv.times, pingcount) = "False"
    /\ pc' = "close"
    /\ UNCHANGED <<argv, env, now, started, currentstate, uptime, downtime,
                   pingcount, errcount, endat, starttime, runstart,
                   rsp, exc, newstate,
                   fd, csvfile, log, raised, raisedat, result>>

\* monitor, line 167: the loop condition raises.
LoopRaise ==
    /\ pc = "loop"
    /\ LoopCond(argv.times, pingcount) = "TypeError"
    /\ Raise("TypeError")
    /\ UNCHANGED <<argv, env, now, started, currentstate, uptime, downtime,
                   pingcount, errcount, endat, starttime, runstart,
                   rsp, exc, newstate,
                   fd, csvfile, log>>

\* Mutant of observe: the first success of a session sets the state and uptime
\* without calling recovered.
observe_silentSeed(s, ns, start, errors) ==
    IF s.currentstate # DOWN
    THEN IF ns = DOWN
         THEN LET dt == IF s.downtime = None THEN Some(start) ELSE s.downtime
                  ec == s.errcount + 1
              IN IF ThresholdReached(ec, errors)
                 THEN [currentstate |-> ns, uptime |-> s.uptime,
                       downtime |-> dt, errcount |-> ec,
                       lines |-> <<lost(s.uptime, dt)>>]
                 ELSE [currentstate |-> s.currentstate, uptime |-> s.uptime,
                       downtime |-> dt, errcount |-> ec, lines |-> <<>>]
         ELSE IF s.currentstate # UP
         THEN [currentstate |-> ns, uptime |-> Some(start),
               downtime |-> None, errcount |-> 0, lines |-> <<>>]
         ELSE [currentstate |-> s.currentstate, uptime |-> s.uptime,
               downtime |-> s.downtime, errcount |-> s.errcount,
               lines |-> <<>>]
    ELSE IF ns = UP
         THEN LET r == recovered(start, s.downtime)
              IN [currentstate |-> ns, uptime |-> r.uptime,
                  downtime |-> r.downtime, errcount |-> r.errcount,
                  lines |-> <<r.line>>]
         ELSE [currentstate |-> s.currentstate, uptime |-> s.uptime,
               downtime |-> s.downtime, errcount |-> s.errcount,
               lines |-> <<>>]

\* Mutant of observe: the state is not looked at, every failed probe at or
\* over the threshold calls lost.
observe_noStateGuard(s, ns, start, errors) ==
    IF ns = DOWN
    THEN LET dt == IF s.downtime = None THEN Some(start) ELSE s.downtime
             ec == s.errcount + 1
         IN IF ThresholdReached(ec, errors)
            THEN [currentstate |-> ns, uptime |-> s.uptime,
                  downtime |-> dt, errcount |-> ec,
                  lines |-> <<lost(s.uptime, dt)>>]
            ELSE [currentstate |-> s.currentstate, uptime |-> s.uptime,
                  downtime |-> dt, errcount |-> ec, lines |-> <<>>]
    ELSE IF s.currentstate # UP
    THEN LET r == recovered(start, s.downtime)
         IN [currentstate |-> ns, uptime |-> r.uptime,
             downtime |-> r.downtime, errcount |-> r.errcount,
             lines |-> <<r.line>>]
    ELSE [currentstate |-> s.currentstate, uptime |-> s.uptime,
          downtime |-> s.downtime, errcount |-> s.errcount,
          lines |-> <<>>]

\* monitor, lines 178-191: the connection state after a probe classified ns
\* that started at start; s is [currentstate, uptime, downtime, errcount] and
\* the result adds the lines logged.
observe(s, ns, start, errors) ==
    IF s.currentstate # DOWN
    THEN IF ns = DOWN
         THEN LET dt == IF s.downtime = None THEN Some(start) ELSE s.downtime
                  ec == s.errcount + 1
              IN IF ThresholdReached(ec, errors)
                 THEN [currentstate |-> ns, uptime |-> s.uptime,
                       downtime |-> dt, errcount |-> ec,
                       lines |-> <<lost(s.uptime, dt)>>]
                 ELSE [currentstate |-> s.currentstate, uptime |-> s.uptime,
                       downtime |-> dt, errcount |-> ec, lines |-> <<>>]
         ELSE IF s.currentstate # UP
         THEN LET r == recovered(start, s.downtime)
              IN [currentstate |-> ns, uptime |-> r.uptime,
                  downtime |-> r.downtime, errcount |-> r.errcount,
                  lines |-> <<r.line>>]
         ELSE [currentstate |-> s.currentstate, uptime |-> s.uptime,
               downtime |-> s.downtime, errcount |-> s.errcount,
               lines |-> <<>>]
    ELSE IF ns = UP
         THEN LET r == recovered(start, s.downtime)
              IN [currentstate |-> ns, uptime |-> r.uptime,
                  downtime |-> r.downtime, errcount |-> r.errcount,
                  lines |-> <<r.line>>]
         ELSE [currentstate |-> s.currentstate, uptime |-> s.uptime,
               downtime |-> s.downtime, errcount |-> s.errcount,
               lines |-> <<>>]

\* monitor, lines 174-191 with diagnostic (lines 128-143): sr1 returns or
\* raises; an OSError is kept in exc, the probe is classified, recorded and
\* logged, and the connection state is brought up to date.
Receive ==
    /\ pc = "wait"
    /\ \E o \in Outcomes(argv.interval) :
         /\ now' = now + o.d
         /\ IF o.e # "none" /\ ~Sr1Catches(o.e)
            THEN /\ Raise(o.e)
                 /\ UNCHANGED <<rsp, exc, newstate, csvfile, log, runstart,
                                currentstate, uptime, downtime, errcount>>
            ELSE LET r == IF o.kind = "reply"
                          THEN Some([src |-> o.src, rtt |-> o.d]) ELSE None
                     d == diagnostic("target", r, o.e)
                     s == observe([currentstate |-> currentstate,
                                   uptime |-> uptime, downtime |-> downtime,
                                   errcount |-> errcount],
                                  d.state, starttime, argv.errors)
                 IN /\ rsp' = r
                    /\ exc' = o.e
                    /\ newstate' = d.state
                    /\ csvfile' = IF fd # "none"
                                  THEN Append(csvfile, CsvRow(d)) ELSE csvfile
                    /\ log' = Append(log, DebugLine(d)) \o s.lines
                    /\ currentstate' = s.currentstate
                    /\ uptime' = s.uptime
                    /\ downtime' = s.downtime
                    /\ errcount' = s.errcount
                    /\ runstart' = IF d.state # DOWN THEN None
                                   ELSE IF runstart = None
                                   THEN Some(starttime) ELSE runstart
                    /\ pc' = "sleep"
                    /\ UNCHANGED <<raised, raisedat, result>>
    /\ UNCHANGED <<argv, env, started, pingcount, endat, starttime, fd>>

\* monitor, lines 192-193: the sleep to the end of the interval.
Sleep ==
    /\ pc = "sleep"
    /\ now' = now + SleepTime(starttime, endat)
    /\ pc' = "loop"
    /\ UNCHANGED <<argv, env, started, currentstate, uptime, downtime,
                   pingcount, errcount, endat, starttime, runstart,
                   rsp, exc, newstate,
                   fd, csvfile, log, raised, raisedat, result>>

\* SIGINT: KeyboardInterrupt is raised wherever run is.
Interrupt ==
    /\ pc \in TryRegion \cup {"start", "close", "finish"}
    /\ raised = "none"
    /\ Raise("KeyboardInterrupt")
    /\ UNCHANGED <<argv, env, now, started, currentstate, uptime, downtime,
                   pingcount, errcount, endat, starttime, runstart,
                   rsp, exc, newstate,
                   fd, csvfile, log>>

\* run, lines 211-212: the except clause, or the exception leaves run.
Except ==
    /\ pc = "except"
    /\ IF RunCatches(raised)
       THEN /\ log' = Append(log, [lvl |-> "critical", msg |-> "Terminated",
                                   dur |-> None])
            /\ pc' = "close"
            /\ UNCHANGED result
       ELSE /\ pc' = "raised"
            /\ result' = <<"raise", raised>>
            /\ UNCHANGED log
    /\ UNCHANGED <<argv, env, now, started, currentstate, uptime, downtime,
                   pingcount, errcount, endat, starttime, runstart,
                   rsp, exc, newstate,
                   fd, csvfile, raised, raisedat>>

\* run, line 213 with CSVLog.close (lines 96-98).
Close ==
    /\ pc = "close"
    /\ fd' = IF fd # "none" THEN "closed" ELSE fd
    /\ pc' = "finish"
    /\ UNCHANGED <<argv, env, now, started, currentstate, uptime, downtime,
                   pingcount, errcount, endat, starttime, runstart,
                   rsp, exc, newstate, csvfile,
                   log, raised, raisedat, result>>

\* run, lines 214-215: the Elapsed line and the return.
Finish ==
    /\ pc = "finish"
    /\ log' = Append(log, [lvl |-> "info", msg |-> "Elapsed",
                           dur |-> Some(now - started)])
    /\ result' = Some(0)
    /\ pc' = "done"
    /\ UNCHANGED <<argv, env, now, started, currentstate, uptime, downtime,
                   pingcount, errcount, endat, starttime, runstart,
                   rsp, exc, newstate, fd,
                   csvfile, raised, raisedat>>

Next ==
    \/ Start
    \/ CsvOpen
    \/ Import
    \/ CheckEuid
    \/ Send
    \/ LoopExit
    \/ LoopRaise
    \/ Receive
    \/ Sleep
    \/ Interrupt
    \/ Except
    \/ Close
    \/ Finish

Spec == Init /\ [][Next]_vars

----------------------------------------------------------------------------
\* What the log tells of a session.

\* The positions in the log of the lines with message m.
Lines(m) == {i \in 1..Len(log) : log[i].msg = m}

\* The debug lines of diagnostic, one per classified probe, in order.
Signals == SelectSeq(log, LAMBDA l : l.lvl = "debug")

\* The k-th classified probe was not reachable.
Failed(k) == Signals[k].msg # "success"

\* The number of probes classified when line i was logged.
ProbesBefore(i) == Cardinality({j \in 1..i : log[j].lvl = "debug"})

\* The probes at which a DOWN line was logged.
DownAt == {ProbesBefore(i) : i \in Lines("DOWN")}

AllFailed ==
    \A i \in 1..Len(log) : log[i].lvl = "debug" => log[i].msg # "success"

\* The last probe was a fault: no reply, an exception, or a reply from a host
\* that is not the target.
Fault == IF rsp = None THEN TRUE ELSE exc # "none" \/ Val(rsp).src # "target"

\* --times was given and is not zero.
TimesSet == argv.times.type # "NoneType" /\ argv.times.val > 0

\* The loop was entered and has been left.
LoopEnded ==
    /\ pc \in {"except", "close", "finish", "done", "raised"}
    /\ raisedat \notin {"start", "open", "import", "euid"}

\* The loop was stopped by SIGINT or by the privilege check of monitor.
Stopped ==
    \/ raised = "KeyboardInterrupt" /\ raisedat \in LoopRegion
    \/ raised = "PermissionError" /\ raisedat = "euid"

----------------------------------------------------------------------------
\* C1: in a session whose probes all failed, no DOWN line is logged and the
\* state is not DOWN before probe number --errors; from that probe on exactly
\* one DOWN line has been logged, at that probe, and the state is DOWN.
C1_DownOncePerStreak ==
    AllFailed =>
        LET n == Len(Signals)
        IN /\ DownAt = IF n >= argv.errors THEN {argv.errors} ELSE {}
           /\ Cardinality(Lines("DOWN")) = IF n >= argv.errors THEN 1 ELSE 0
           /\ (currentstate = DOWN) <=> (n >= argv.errors)

C1_Witness ==
    /\ AllFailed
    /\ argv.errors >= 2
    /\ Len(Signals) > argv.errors
    /\ currentstate = DOWN

\* C2: a DOWN line is logged at a probe only if that probe and the --errors - 1
\* probes right before it all failed.
C2_DownOnlyAfterConsecutiveFailures ==
    \A n \in DownAt :
        /\ n >= argv.errors
        /\ \A k \in (n - argv.errors + 1)..n : Failed(k)

\* C3: a probe classified reachable while the state is DOWN moves the state to
\* UP in that iteration, logs exactly one UP line, sets uptime to the start of
\* that probe, resets errcount to 0 and clears downtime.
C3_RecoveryOnFirstSuccess ==
    [][(pc = "wait" /\ pc' = "sleep" /\ currentstate = DOWN /\ newstate' = UP)
       => /\ currentstate' = UP
          /\ uptime' = Some(starttime)
          /\ errcount' = 0
          /\ downtime' = None
          /\ Len(log') = Len(log) + 2
          /\ log'[Len(log')].msg = "UP"
          /\ Cardinality(Lines("UP")') = Cardinality(Lines("UP")) + 1]_vars

C3_Witness ==
    /\ pc = "sleep"
    /\ currentstate = UP
    /\ Lines("DOWN") # {}
    /\ log[Len(log)].msg = "UP"
    /\ argv.errors >= 2

\* C4: when the loop ends after --times probes, run returns 0 if the state is
\* UP and 1 otherwise.
C4_ExitCodeTellsState ==
    (pc = "done" /\ raised = "none")
        => result = Some(IF currentstate = UP THEN 0 ELSE 1)

\* C5: after a probe that took d the loop sleeps max(0, interval - d).
C5_SleepIsRestOfInterval ==
    [][(pc = "sleep" /\ pc' = "loop")
       => now' - now = IF now - starttime < argv.interval
                       THEN argv.interval - (now - starttime) ELSE 0]_vars

\* C6: a probe starts no sooner than the interval after the start of the
\* probe before it.
C6_NeverFiresEarly ==
    [][(pc = "loop" /\ pc' = "wait" /\ pingcount >= 1)
       => starttime' - starttime >= argv.interval]_vars

C6_Witness ==
    /\ pc = "wait"
    /\ pingcount >= 2
    /\ starttime >= argv.interval

\* C7: with --times set to M > 0 and no interrupt or privilege error, the
\* loop ends after exactly M probes; with --times unset or zero it does not
\* end by itself.
C7_ExactlyTimesProbes ==
    /\ (TimesSet /\ LoopEnded /\ ~Stopped) => pingcount = argv.times.val
    /\ (TimesSet /\ pc = "loop" /\ pingcount = argv.times.val)
           => ENABLED LoopExit
    /\ ~TimesSet
           => /\ ~(LoopEnded /\ ~Stopped)
              /\ (pc = "loop" /\ pingcount < MaxProbes) => ENABLED Send

\* C8: a probe that timed out, raised an OSError or was answered by another
\* host is classified DOWN and recorded as such, and the loop goes on; once
\* a probe has been sent the loop is left only on an interrupt, on a
\* privilege error or after --times probes.
C8_FaultsAreAbsorbed ==
    /\ (pc = "sleep" /\ Fault)
           => /\ newstate = DOWN
              /\ Failed(Len(Signals))
              /\ fd = "open" => csvfile[Len(csvfile)].state = "D"
    /\ (pc \notin LoopRegion /\ pingcount >= 1)
           => \/ raised \in {"KeyboardInterrupt", "PermissionError"}
              \/ /\ raised = "none"
                 /\ argv.times.type = "int"
                 /\ pingcount = argv.times.val

C8_Witness ==
    /\ pc = "sleep"
    /\ pingcount >= 2
    /\ exc = "OSError"
    /\ Signals[1].msg = "not reachable"

\* C9: when the loop is stopped by an interrupt or by the privilege check, run
\* does not let the exception out: it logs the Terminated line, then closes
\* the csv file, then logs the Elapsed line and returns; no probe is sent
\* after the exception.
C9_CleanShutdown ==
    Stopped =>
        /\ pc \in {"except", "close", "finish", "done"}
        /\ result \in {None, Some(0)}
        /\ pc # "except" => Lines("Terminated") # {}
        /\ fd = "closed" => pc \in {"finish", "done"}
        /\ Lines("Elapsed") # {} => pc = "done" /\ fd # "open"
        /\ pc = "done"
               => /\ result = Some(0)
                  /\ log[Len(log)].msg = "Elapsed"
                  /\ log[Len(log) - 1].msg = "Terminated"
                  /\ log[Len(log) - 1].lvl = "critical"
                  /\ Len(Signals) \in {pingcount - 1, pingcount}

C9_Witness ==
    /\ pc = "done"
    /\ raised = "KeyboardInterrupt"
    /\ raisedat = "wait"
    /\ fd = "closed"
    /\ pingcount >= 2

\* C10: a failure to open the csv file leaves run as an exception: run does
\* not go on to close and return, and no probe is sent.
C10_OpenFailurePropagates ==
    (raisedat = "open" /\ raised \in OSErrorClasses)
        => /\ pc \in {"except", "raised"}
           /\ pingcount = 0
           /\ result \in {None, <<"raise", raised>>}

\* The line of the csv file is a header line, not a record.
IsHeader(line) == line.state = "state"

\* The records appended to the csv file in this session.
Rows == SubSeq(csvfile, (IF argv.csv = "nonempty" THEN 1 ELSE 0) + 1,
               Len(csvfile))

\* C11: once the csv file is open its first line is the header, written by
\* open when the file was new or empty, and no other line is a header.
C11_HeaderOnceAtTop ==
    fd # "none"
        => /\ Len(csvfile) >= 1
           /\ IsHeader(csvfile[1])
           /\ \A i \in 2..Len(csvfile) : ~IsHeader(csvfile[i])

\* A probe has been sent and sr1 has not returned (or was interrupted).
InFlight == pc = "wait" \/ raisedat = "wait"

\* C12: with the csv file open every classified probe has appended exactly
\* one record, so the records are as many as the probes sent, less the one
\* still awaited; the letter of a record is U exactly when its probe was
\* classified reachable and D otherwise, whatever the connection state.
C12_OneRecordPerProbe ==
    fd # "none"
        => LET rows == Rows
               sig  == Signals
           IN /\ Len(rows) = Len(sig)
              /\ Len(rows) = pingcount - (IF InFlight THEN 1 ELSE 0)
              /\ \A k \in 1..Len(rows) :
                     /\ ~IsHeader(rows[k])
                     /\ rows[k].state =
                            IF sig[k].msg # "success" THEN "D" ELSE "U"

C12_Witness ==
    /\ fd = "open"
    /\ pc = "sleep"
    /\ Len(Rows) >= 2
    /\ currentstate = UP
    /\ Rows[Len(Rows)].state = "D"
    /\ Lines("DOWN") = {}

----------------------------------------------------------------------------
\* diagnostic (lines 128-143) on its own: every (sent, rcvd, e), also those the
\* loop of monitor never passes (a reply together with an exception).

Hosts == {"target", "router", "other"}

ClassifyInit ==
    /\ pc = "classify"
    /\ argv \in [host : Hosts]
    /\ rsp \in {None} \cup {Some([src |-> h, rtt |-> t]) :
                                h \in Hosts, t \in 0..MaxInterval}
    /\ exc \in {"none"} \cup OSErrorClasses
    /\ env = [root |-> TRUE, scapy |-> TRUE]
    /\ now = 0
    /\ started = 0
    /\ currentstate = UNKNOWN
    /\ uptime = None
    /\ downtime = None
    /\ pingcount = 1
    /\ errcount = 0
    /\ endat = 0
    /\ starttime = 0
    /\ runstart = None
    /\ newstate = UNKNOWN
    /\ fd = "open"
    /\ csvfile = <<>>
    /\ log = <<>>
    /\ raised = "none"
    /\ raisedat = "none"
    /\ result = None

\* diagnostic (lines 128-143): classify, add the record, log the debug line.
Classify ==
    /\ pc = "classify"
    /\ LET d == diagnostic(argv.host, rsp, exc)
       IN /\ newstate' = d.state
          /\ csvfile' = IF fd # "none" THEN Append(csvfile, CsvRow(d))
                        ELSE csvfile
          /\ log' = Append(log, DebugLine(d))
    /\ pc' = "classified"
    /\ UNCHANGED <<argv, env, now, started, currentstate, uptime, downtime,
                   pingcount, errcount, endat, starttime, runstart, rsp, exc,
                   fd, raised, raisedat, result>>

ClassifyNext == Classify

ClassifySpec == ClassifyInit /\ [][ClassifyNext]_vars

\* C13: the classification is the first match of: no reply -> DOWN
\* "timeout"; an exception -> DOWN "error"; a reply whose source is not the
\* destination of the probe -> DOWN "not reachable"; otherwise UP "success"
\* with the round trip time in milliseconds.  UP is given only to a reply
\* from the target that came without an exception.
C13_PriorityChain ==
    pc = "classified" =>
        LET line == log[Len(log)]
            row  == csvfile[Len(csvfile)]
            want == IF rsp = None THEN <<DOWN, "timeout", "D">>
                    ELSE IF exc # "none" THEN <<DOWN, "error", "D">>
                    ELSE IF Val(rsp).src # argv.host
                    THEN <<DOWN, "not reachable", "D">>
                    ELSE <<UP, "success", "U">>
        IN /\ newstate = want[1]
           /\ line.msg = want[2]
           /\ row.status = want[2]
           /\ row.state = want[3]
           /\ newstate = UP => row.rtt = Val(rsp).rtt * 1000
           /\ newstate = DOWN => row.rtt = 0 /\ line.dur = None

C13_Witness ==
    /\ pc = "classified"
    /\ rsp # None
    /\ exc = "none"
    /\ newstate = DOWN
    /\ log[Len(log)].msg = "not reachable"

----------------------------------------------------------------------------
\* The loop of monitor on its own (lines 167-194): every sequence of probe
\* outcomes, in a session that was started by root without --csv, with
\* --times as a caller of monitor passes it, and that no signal interrupts.

\* The state in which the loop is entered: the state run and monitor have
\* built by line 166.
MonitorInit ==
    /\ pc = "loop"
    /\ argv \in [interval : Intervals, errors : Errors,
                 times : {t \in Times : t.type # "str"}, csv : {"none"}]
    /\ env = [root |-> TRUE, scapy |-> TRUE]
    /\ now = 0
    /\ started = 0
    /\ currentstate = UNKNOWN
    /\ uptime = None
    /\ downtime = None
    /\ pingcount = 0
    /\ errcount = 0
    /\ endat = 0
    /\ starttime = 0
    /\ runstart = None
    /\ rsp = None
    /\ exc = "none"
    /\ newstate = UNKNOWN
    /\ fd = "none"
    /\ csvfile = <<>>
    /\ log = <<[lvl |-> "info", msg |-> "Start", dur |-> None]>>
    /\ raised = "none"
    /\ raisedat = "none"
    /\ result = None

MonitorNext == Send \/ Receive \/ Sleep \/ LoopExit

MonitorSpec == MonitorInit /\ [][MonitorNext]_vars

----------------------------------------------------------------------------
\* The connection state machine of monitor.

\* The last probe classified was reachable.
LastReachable ==
    LET sig == Signals IN Len(sig) >= 1 /\ sig[Len(sig)].msg = "success"

\* monitor has just brought the state up to date and the last line it logged
\* has message m.
JustLogged(m) == pc = "sleep" /\ Len(log) >= 1 /\ log[Len(log)].msg = m

\* C14: whenever the state is UP and the last probe classified was reachable,
\* errcount is 0.
C14_NoPendingFailuresWhenUp ==
    (currentstate = UP /\ LastReachable) => errcount = 0

\* The failed probes classified after line i of the log.
FailsAfter(i) ==
    Cardinality({j \in (i + 1)..Len(log) :
                     log[j].lvl = "debug" /\ log[j].msg # "success"})

\* The position of the last UP line of the log, 0 when there is none.
LastUp == LET ups == Lines("UP")
          IN IF ups = {} THEN 0 ELSE CHOOSE i \in ups : \A j \in ups : j <= i

\* C15: errcount is the number of probes that failed since the state last
\* became UP (since the start when it never did), every one of them counted
\* once while the state was not DOWN, which it becomes at --errors of them;
\* right after a transition to UP errcount is 0.
C15_ErrcountCountsFailuresSinceUp ==
    /\ errcount = LET n == FailsAfter(LastUp)
                  IN IF n < argv.errors THEN n ELSE argv.errors
    /\ currentstate # DOWN => errcount = FailsAfter(LastUp)
    /\ JustLogged("UP") => errcount = 0 /\ currentstate = UP

C15_Witness ==
    /\ currentstate = UP
    /\ errcount = 1
    /\ Lines("DOWN") # {}
    /\ Lines("UP") # {}
    /\ argv.errors >= 2

\* The probes classified so far include a reachable one.
SomeReachable == \E i \in 1..Len(log) : log[i].msg = "success"

\* C16 as the specification words it: as long as no DOWN line was logged no
\* UP line is logged either, the first reachable probe is taken silently.
C16_BaselineIsSilent == Lines("DOWN") = {} => Lines("UP") = {}

\* C16: until a DOWN line is logged, the first probe classified reachable
\* moves the state from UNKNOWN to UP, sets uptime to the start of that probe,
\* clears errcount and downtime and logs one UP line; that line carries a
\* downtime exactly when failed probes came before it.
C16_BaselineIsLogged ==
    Lines("DOWN") = {} =>
        /\ Cardinality(Lines("UP")) = IF SomeReachable THEN 1 ELSE 0
        /\ currentstate = IF SomeReachable THEN UP ELSE UNKNOWN
        /\ (uptime # None) <=> SomeReachable
        /\ \A i \in Lines("UP") :
               /\ i > 1
               /\ log[i - 1].msg = "success"
               /\ \A j \in 1..(i - 2) : log[j].msg # "success"
               /\ (log[i].dur # None) <=> (FailsAfter(0) > FailsAfter(i))
        /\ JustLogged("UP") =>
               /\ uptime = Some(starttime)
               /\ errcount = 0
               /\ downtime = None

C16_Witness ==
    /\ JustLogged("UP")
    /\ Lines("DOWN") = {}
    /\ Failed(1)
    /\ log[Len(log)].dur # None
    /\ uptime = Some(starttime)

\* C17: when a DOWN line is logged, downtime is the start of the first probe
\* of the unbroken run of failed probes that ends at the probe just
\* classified.
C17_DownSinceIsStartOfRun == JustLogged("DOWN") => downtime = runstart

\* C18: a PermissionError raised by sr1 is never kept as the exception of a
\* classified probe: it leaves monitor in that iteration and run logs the
\* termination.
C18_PrivilegeErrorIsFatal ==
    /\ exc # "PermissionError"
    /\ (raised = "PermissionError" /\ raisedat = "wait" /\ pc = "done")
           => Lines("Terminated") # {}

\* C19 as the specification words it: the uptime of a DOWN line is counted up
\* to the start of the probe at which DOWN is declared.
C19_UptimeToDeclaringProbe ==
    JustLogged("DOWN") =>
        log[Len(log)].dur = IF uptime = None THEN None
                            ELSE Some(starttime - Val(uptime))

\* C19: the uptime of a DOWN line is downtime - uptime, from the probe that
\* made the state UP to the first probe that failed since, which is no later
\* than the start of the run of failed probes that ends at the declaring
\* probe; no uptime is given when the state was never UP.
C19_UptimeToFirstFailure ==
    JustLogged("DOWN") =>
        /\ downtime # None
        /\ runstart # None
        /\ Val(downtime) <= Val(runstart)
        /\ Val(runstart) <= starttime
        /\ (uptime = None) <=> (Lines("UP") = {})
        /\ log[Len(log)].dur = IF uptime = None THEN None
                               ELSE Some(Val(downtime) - Val(uptime))
        /\ uptime # None => Val(uptime) < Val(downtime)

C19_Witness ==
    /\ JustLogged("DOWN")
    /\ argv.errors >= 2
    /\ uptime # None
    /\ log[Len(log)].dur = Some(Val(downtime) - Val(uptime))
    /\ Val(downtime) < starttime

\* The UP and DOWN lines of the log, in order.
Events == SelectSeq(log, LAMBDA l : l.msg \in {"UP", "DOWN"})

\* C20: no two successive events are of the same kind, an event is logged
\* right after the debug line of its probe (one event a probe at most), and
\* the state is the kind of the last event, UNKNOWN before the first.
C20_EventsAlternate ==
    LET ev == Events
    IN /\ \A i \in 1..(Len(ev) - 1) : ev[i].msg # ev[i + 1].msg
       /\ \A i \in 1..Len(log) :
              log[i].msg \in {"UP", "DOWN"}
                  => i > 1 /\ log[i - 1].lvl = "debug"
       /\ currentstate = IF Len(ev) = 0 THEN UNKNOWN ELSE ev[Len(ev)].msg

C20_Witness ==
    /\ Len(Events) >= 3
    /\ Events[1].msg = "DOWN"
    /\ currentstate = DOWN

====
